---- MODULE Spec2Model ----
(***************************************************************************)
(* Model of src/intset.c: the intSet value type (a sorted, duplicate-free  *)
(* array of uint32), its text codec (intset_in / intset_out), the AVL      *)
(* construction tree and the set operators built on binarySearch.          *)
(*                                                                         *)
(* A uint32 is the pair <<hi, lo>> of its two 16-bit halves, so that all   *)
(* arithmetic is carried out modulo 2^32 exactly as the C code does it.    *)
(* A tree is <<>> (NULL) or <<data, left, right>>.  An array is a          *)
(* sequence; C index i is sequence position i + 1.                         *)
(***************************************************************************)
EXTENDS Integers, Sequences, FiniteSets, TLC

\* ------------------------------------------------------------------ bounds
\* operands of the set operators hold elements 0..MaxElem
MaxElem == 3
\* texts given to intset_in are built from at most MaxTokens pieces
MaxTokens == 4
\* values given to intset_out hold at most MaxOutCount elements
MaxOutCount == 2
\* keys inserted into a construction tree are 0..MaxKey
MaxKey == 6

\* --------------------------------------------------------- uint32 arithmetic
Half == 65536

U32(n) == <<n \div Half, n % Half>>

Zero32 == U32(0)

One32 == U32(1)

Lt32(x, y) == x[1] < y[1] \/ (x[1] = y[1] /\ x[2] < y[2])

Gt32(x, y) == Lt32(y, x)

Ge32(x, y) == ~Lt32(x, y)

Add32(x, y) ==
    LET lo == x[2] + y[2]
    IN  <<(x[1] + y[1] + (lo \div Half)) % Half, lo % Half>>

Sub32(x, y) ==
    LET borrow == IF x[2] < y[2] THEN 1 ELSE 0
    IN  <<(x[1] - y[1] - borrow + 2 * Half) % Half, (x[2] - y[2] + Half) % Half>>

Div2_32(x) == <<x[1] \div 2, ((x[1] % 2) * Half + x[2]) \div 2>>

\* curr_num *= 10; curr_num += d   (wraps modulo 2^32)
MulAdd10(x, d) ==
    LET lo == x[2] * 10 + d
    IN  <<(x[1] * 10 + (lo \div Half)) % Half, lo % Half>>

\* x / 10 and x % 10, as psprintf("%u") uses them
DivMod10(x) ==
    LET r  == x[1] % 10
        lo == r * Half + x[2]
    IN  [quot |-> <<x[1] \div 10, lo \div 10>>, rem |-> lo % 10]

\* an array of n elements is indexed by the uint32 values 0..n-1
InArray(idx, n) == idx[1] = 0 /\ idx[2] < Len(n)

At(n, idx) == n[idx[2] + 1]

\* ------------------------------------------------------ construction tree
NULL == <<>>

data(t) == t[1]

left(t) == t[2]

right(t) == t[3]

newNode(n) == <<n, NULL, NULL>>

RECURSIVE treeHeight(_)
treeHeight(root) ==
    IF root = NULL THEN 0
    ELSE LET l == treeHeight(left(root))
             r == treeHeight(right(root))
         IN  (IF l > r THEN l ELSE r) + 1

left_rotate(root) ==
    LET r  == right(root)
        rl == left(r)
    IN  <<data(r), <<data(root), left(root), rl>>, right(r)>>

right_rotate(root) ==
    LET l  == left(root)
        lr == right(l)
    IN  <<data(l), left(l), <<data(root), lr, right(root)>>>>

\* rebalance with the double rotations lost: always a single rotation
rebalance_single(n, root) ==
    LET balanced == treeHeight(left(root)) - treeHeight(right(root))
    IN  IF balanced > 1 THEN right_rotate(root)
        ELSE IF balanced < -1 THEN left_rotate(root)
        ELSE root

\* the rebalancing half of insertNode: n is the key just inserted below root
rebalance(n, root) ==
    LET balanced == treeHeight(left(root)) - treeHeight(right(root))
    IN  IF balanced > 1
        THEN IF Lt32(n, data(left(root)))
             THEN right_rotate(root)
             ELSE right_rotate(<<data(root), left_rotate(left(root)), right(root)>>)
        ELSE IF balanced < -1
        THEN IF Gt32(n, data(right(root)))
             THEN left_rotate(root)
             ELSE left_rotate(<<data(root), left(root), right_rotate(right(root))>>)
        ELSE root

\* insertNode with the duplicate test lost: an equal key goes to the right
RECURSIVE insertNode_dup(_, _)
insertNode_dup(n, root) ==
    IF root = NULL THEN newNode(n)
    ELSE IF Ge32(n, data(root))
         THEN rebalance(n, <<data(root), left(root), insertNode_dup(n, right(root))>>)
    ELSE rebalance(n, <<data(root), insertNode_dup(n, left(root)), right(root)>>)

RECURSIVE insertNode(_, _)
insertNode(n, root) ==
    IF root = NULL THEN newNode(n)
    ELSE IF Gt32(n, data(root))
         THEN rebalance(n, <<data(root), left(root), insertNode(n, right(root))>>)
    ELSE IF Lt32(n, data(root))
         THEN rebalance(n, <<data(root), insertNode(n, left(root)), right(root)>>)
    ELSE rebalance(n, root)

RECURSIVE treeSize(_)
treeSize(root) ==
    IF root = NULL THEN 0
    ELSE treeSize(left(root)) + treeSize(right(root)) + 1

\* writes the keys in order into arr from C index i on; returns the array
\* and the next free index
RECURSIVE treeToArr(_, _, _)
treeToArr(root, arr, i) ==
    IF root = NULL THEN [arr |-> arr, i |-> i]
    ELSE LET l  == IF left(root) # NULL THEN treeToArr(left(root), arr, i)
                   ELSE [arr |-> arr, i |-> i]
             a1 == [l.arr EXCEPT ![l.i + 1] = data(root)]
             i1 == l.i + 1
         IN  IF right(root) # NULL THEN treeToArr(right(root), a1, i1)
             ELSE [arr |-> a1, i |-> i1]

\* size = treeSize(tree); palloc(VARHDRSZ + size * 4); treeToArr(tree, nums, 0)
treeToNums(tree) ==
    treeToArr(tree, [k \in 1..treeSize(tree) |-> Zero32], 0).arr

\* ----------------------------------------------------------- array search
\* One call yields the set of results the build can produce.  A read of
\* n[mid] outside the array is undefined behaviour: it may give any answer
\* or fault, and `bad` records the offending index.
Defined(r) == {[ret |-> r, fault |-> FALSE, bad |-> {}]}

Undefined(idx) ==
    {[ret |-> TRUE,  fault |-> FALSE, bad |-> {idx}],
     [ret |-> FALSE, fault |-> FALSE, bad |-> {idx}],
     [ret |-> FALSE, fault |-> TRUE,  bad |-> {idx}]}

RECURSIVE binarySearch(_, _, _, _)
binarySearch(n, low, high, target) ==
    IF Ge32(high, low)
    THEN LET mid == Add32(low, Div2_32(Sub32(high, low)))
         IN  IF ~InArray(mid, n) THEN Undefined(mid)
             ELSE IF At(n, mid) = target THEN Defined(TRUE)
             ELSE IF Gt32(At(n, mid), target)
                  THEN binarySearch(n, low, Sub32(mid, One32), target)
             ELSE binarySearch(n, Add32(mid, One32), high, target)
    ELSE Defined(FALSE)

RECURSIVE numsEqualFrom(_, _, _, _)
numsEqualFrom(a, b, size, i) ==
    IF i < size
    THEN IF i >= Len(a) \/ i >= Len(b) THEN Undefined(U32(i))
         ELSE IF a[i + 1] # b[i + 1] THEN Defined(FALSE)
         ELSE numsEqualFrom(a, b, size, i + 1)
    ELSE Defined(TRUE)

numsEqual(a, b, size) == numsEqualFrom(a, b, size, 0)

\* ------------------------------------------------------------- results
\* what an operator hands back to the host: kind is "value" (an intSet in
\* nums), "bool", "count", "text", "InvalidSyntax" (ereport(ERROR)) or
\* "fault" (the process died on an invalid access).  nodes is the number of
\* tree nodes the call created, bad the out-of-array indices it read.
Result(kind, bool, nums, text, count, nodes, bad) ==
    [kind |-> kind, bool |-> bool, nums |-> nums, text |-> text,
     count |-> count, nodes |-> nodes, bad |-> bad]

NoResult == Result("none", FALSE, <<>>, <<>>, 0, 0, {})

BoolResult(r) ==
    IF r.fault THEN Result("fault", FALSE, <<>>, <<>>, 0, 0, r.bad)
    ELSE Result("bool", r.ret, <<>>, <<>>, 0, 0, r.bad)

\* a tree-building loop ended with t = [fault, tree, bad]
TreeResult(t) ==
    IF t.fault THEN Result("fault", FALSE, <<>>, <<>>, 0, treeSize(t.tree), t.bad)
    ELSE Result("value", FALSE, treeToNums(t.tree), <<>>, 0, treeSize(t.tree), t.bad)

EmptyResult == Result("value", FALSE, <<>>, <<>>, 0, 0, {})

\* VARSIZE_ANY_EXHDR(a) / 4
SizeOf(a) == U32(Len(a))

\* ------------------------------------------------------- operator loops
\* for (i = 0; i < size; i++)
\*     if (binarySearch(other, 0, osize - 1, src[i]) == keep)
\*         tree = insertNode(src[i], tree);
RECURSIVE searchLoop(_, _, _, _, _)
searchLoop(src, other, keep, i, acc) ==
    IF acc.fault \/ i >= Len(src) THEN {acc}
    ELSE UNION {
           IF r.fault
           THEN {[fault |-> TRUE, tree |-> acc.tree, bad |-> acc.bad \cup r.bad]}
           ELSE searchLoop(src, other, keep, i + 1,
                           [fault |-> FALSE,
                            tree  |-> IF r.ret = keep
                                      THEN insertNode(src[i + 1], acc.tree)
                                      ELSE acc.tree,
                            bad   |-> acc.bad \cup r.bad])
           : r \in binarySearch(other, Zero32, Sub32(SizeOf(other), One32), src[i + 1]) }

EmptyTree == [fault |-> FALSE, tree |-> NULL, bad |-> {}]

\* for (i = 0; i < size; i++)
\*     if (!binarySearch(other, 0, osize - 1, src[i])) { res = false; break; }
\* size is the loop bound the caller computed; src[i] beyond the array is an
\* undefined read.
RECURSIVE allFound(_, _, _, _, _)
allFound(src, size, other, i, bad) ==
    IF i >= size THEN {[ret |-> TRUE, fault |-> FALSE, bad |-> bad]}
    ELSE IF i >= Len(src)
         THEN {[r EXCEPT !.bad = bad \cup r.bad] : r \in Undefined(U32(i))}
    ELSE UNION {
           IF r.fault \/ ~r.ret
           THEN {[ret |-> FALSE, fault |-> r.fault, bad |-> bad \cup r.bad]}
           ELSE allFound(src, size, other, i + 1, bad \cup r.bad)
           : r \in binarySearch(other, Zero32, Sub32(SizeOf(other), One32), src[i + 1]) }

\* for (i = 0; i < size; i++) tree = insertNode(nums[i], tree);
RECURSIVE insertAll(_, _, _)
insertAll(nums, i, tree) ==
    IF i >= Len(nums) THEN tree
    ELSE insertAll(nums, i + 1, insertNode(nums[i + 1], tree))

\* ------------------------------------------------------------ operators
intset_union(a, b) ==
    IF Len(a) = 0 /\ Len(b) = 0 THEN {EmptyResult}
    ELSE LET u_tree == insertAll(b, 0, insertAll(a, 0, NULL))
         IN  {TreeResult([fault |-> FALSE, tree |-> u_tree, bad |-> {}])}

intset_intersectn(a, b) ==
    IF Len(a) = 0 \/ Len(b) = 0 THEN {EmptyResult}
    ELSE IF Len(a) < Len(b)
         THEN {TreeResult(t) : t \in searchLoop(a, b, TRUE, 0, EmptyTree)}
    ELSE {TreeResult(t) : t \in searchLoop(b, a, TRUE, 0, EmptyTree)}

\* bsize is VARSIZE_ANY_EXHDR(b), not divided by 4: a count of bytes
intset_contain_all(a, b) ==
    LET asize == Len(a)
        bsize == 4 * Len(b)
    IN  IF asize < bsize THEN {BoolResult(r) : r \in Defined(FALSE)}
        ELSE {BoolResult(r) : r \in allFound(b, bsize, a, 0, {})}

intset_contain_only(a, b) ==
    LET asize == Len(a)
        bsize == Len(b)
    IN  IF asize > bsize THEN {BoolResult(r) : r \in Defined(FALSE)}
        ELSE {BoolResult(r) : r \in allFound(a, asize, b, 0, {})}

intset_contains(i, a) ==
    IF Len(a) = 0 THEN {BoolResult(r) : r \in Defined(FALSE)}
    ELSE {BoolResult(r) : r \in binarySearch(a, Zero32, Sub32(SizeOf(a), One32), i)}

intset_cardinality(a) == {Result("count", FALSE, <<>>, <<>>, Len(a), 0, {})}

intset_disjunctn(a, b) ==
    UNION {
      IF e.fault THEN {BoolResult(e)}
      ELSE IF e.ret THEN {[EmptyResult EXCEPT !.bad = e.bad]}
      ELSE {TreeResult(t2) :
              t2 \in UNION {searchLoop(b, a, FALSE, 0, t1) :
                              t1 \in searchLoop(a, b, FALSE, 0,
                                                [EmptyTree EXCEPT !.bad = e.bad])}}
      : e \in numsEqual(a, b, Len(a)) }

intset_diff(a, b) ==
    IF Len(a) = 0 THEN {EmptyResult}
    ELSE {TreeResult(t) : t \in searchLoop(a, b, FALSE, 0, EmptyTree)}

\* ------------------------------------------------------------ text codec
\* a text is a sequence of one-character strings
Digits == <<"0", "1", "2", "3", "4", "5", "6", "7", "8", "9">>

isDigit(c) == \E d \in 1..10 : Digits[d] = c

\* str[i] - '0'
digitValue(c) == (CHOOSE d \in 1..10 : Digits[d] = c) - 1

\* The pattern of regcomp, piece by piece.  Each matcher maps a set of
\* positions (characters consumed so far) to the set of positions the piece
\* can end at.
RECURSIVE reStar(_, _, _)
reStar(str, P, C) ==
    LET Q == P \cup {p + 1 : p \in {q \in P : q < Len(str) /\ str[q + 1] \in C}}
    IN  IF Q = P THEN P ELSE reStar(str, Q, C)

reChar(str, P, c) == {p + 1 : p \in {q \in P : q < Len(str) /\ str[q + 1] = c}}

\* " *"
reSpaces(str, P) == reStar(str, P, {" "})

\* "[0-9]+"
reNumber(str, P) ==
    LET D == {Digits[d] : d \in 1..10}
    IN  reStar(str, {p + 1 : p \in {q \in P : q < Len(str) /\ str[q + 1] \in D}}, D)

\* " *[0-9]+ *, *"
reItem(str, P) ==
    reSpaces(str, reChar(str, reSpaces(str, reNumber(str, reSpaces(str, P))), ","))

\* "( *[0-9]+ *, *)*"
RECURSIVE reItems(_, _)
reItems(str, P) ==
    LET Q == P \cup reItem(str, P)
    IN  IF Q = P THEN P ELSE reItems(str, Q)

\* "(( *[0-9]+ *, *)* *[0-9]+ *)?"
reBody(str, P) ==
    P \cup reSpaces(str, reNumber(str, reSpaces(str, reItems(str, P))))

\* regexec(&regex, str) == 0 for "^ *\{ *(( *[0-9]+ *, *)* *[0-9]+ *)? *\} *$"
regexMatches(str) ==
    Len(str) \in
      reSpaces(str, reChar(str,
        reSpaces(str, reBody(str,
          reSpaces(str, reChar(str, reSpaces(str, {0}), "{")))), "}"))

\* scan without "curr_num = 0" after an insertion
RECURSIVE scan_noreset(_, _, _, _, _)
scan_noreset(str, i, curr_num, flag, tempNums) ==
    IF i >= Len(str) THEN tempNums
    ELSE IF isDigit(str[i + 1])
         THEN scan_noreset(str, i + 1, MulAdd10(curr_num, digitValue(str[i + 1])), TRUE, tempNums)
    ELSE IF flag
         THEN scan_noreset(str, i + 1, curr_num, FALSE, insertNode(curr_num, tempNums))
    ELSE scan_noreset(str, i + 1, curr_num, flag, tempNums)

\* for (i = 0; i < strlen(str); i++) { ... } of intset_in
RECURSIVE scan(_, _, _, _, _)
scan(str, i, curr_num, flag, tempNums) ==
    IF i >= Len(str) THEN tempNums
    ELSE IF isDigit(str[i + 1])
         THEN scan(str, i + 1, MulAdd10(curr_num, digitValue(str[i + 1])), TRUE, tempNums)
    ELSE IF flag
         THEN scan(str, i + 1, Zero32, FALSE, insertNode(curr_num, tempNums))
    ELSE scan(str, i + 1, curr_num, flag, tempNums)

\* intset_in with the scan moved before the regexec test
intset_in_scanfirst(str) ==
    LET tempNums == scan(str, 0, Zero32, FALSE, NULL)
    IN  IF ~regexMatches(str)
        THEN {Result("InvalidSyntax", FALSE, <<>>, str, 0, treeSize(tempNums), {})}
        ELSE {Result("value", FALSE, treeToNums(tempNums), <<>>, 0, treeSize(tempNums), {})}

intset_in(str) ==
    IF ~regexMatches(str)
    THEN {Result("InvalidSyntax", FALSE, <<>>, str, 0, 0, {})}
    ELSE LET tempNums == scan(str, 0, Zero32, FALSE, NULL)
         IN  {Result("value", FALSE, treeToNums(tempNums), <<>>, 0, treeSize(tempNums), {})}

\* (uint32_t) log10(x) for x > 0
RECURSIVE log10(_)
log10(x) == IF Lt32(x, U32(10)) THEN 0 ELSE 1 + log10(DivMod10(x).quot)

\* the digits "%u" prints
RECURSIVE decimal(_)
decimal(x) ==
    IF Lt32(x, U32(10)) THEN <<Digits[x[2] + 1]>>
    ELSE Append(decimal(DivMod10(x).quot), Digits[DivMod10(x).rem + 1])

NUL == "NUL"

\* psprintf("%u,", x), with its terminator
psprintf(x) == decimal(x) \o <<",", NUL>>

\* memcpy(dest + at, src, n); bytes of src past its terminator are garbage
memcpy(dest, at, src, n) ==
    [k \in 1..Len(dest) |->
       IF k > at /\ k <= at + n
       THEN (IF k - at <= Len(src) THEN src[k - at] ELSE "?")
       ELSE dest[k]]

\* outLoop with curr_len one short for numbers of several digits
RECURSIVE outLoop_short(_, _, _, _)
outLoop_short(nums, i, result, sofar) ==
    IF i >= Len(nums) THEN result
    ELSE LET temp     == psprintf(nums[i + 1])
             curr_len == IF nums[i + 1] # Zero32 THEN log10(nums[i + 1]) + 1 ELSE 2
         IN  outLoop_short(nums, i + 1, memcpy(result, sofar, temp, curr_len), sofar + curr_len)

\* the second loop of intset_out: copy each "%u," into result
RECURSIVE outLoop(_, _, _, _)
outLoop(nums, i, result, sofar) ==
    IF i >= Len(nums) THEN result
    ELSE LET temp     == psprintf(nums[i + 1])
             curr_len == IF nums[i + 1] # Zero32 THEN log10(nums[i + 1]) + 2 ELSE 2
         IN  outLoop(nums, i + 1, memcpy(result, sofar, temp, curr_len), sofar + curr_len)

\* the first loop of intset_out: the length of the string
RECURSIVE outLen(_, _)
outLen(nums, i) ==
    IF i >= Len(nums) THEN 0
    ELSE (IF nums[i + 1] # Zero32 THEN log10(nums[i + 1]) + 1 ELSE 1) + outLen(nums, i + 1)

\* a C string: the characters before the first terminator
RECURSIVE cstring(_)
cstring(buf) ==
    IF buf = <<>> \/ Head(buf) = NUL THEN <<>>
    ELSE <<Head(buf)>> \o cstring(Tail(buf))

intset_out(nums) ==
    IF Len(nums) = 0
    THEN {Result("text", FALSE, <<>>, cstring(<<"{", "}", NUL>>), 0, 0, {})}
    ELSE LET res_len == outLen(nums, 0) + Len(nums) + 2
             buf0    == [[k \in 1..res_len |-> "?"] EXCEPT ![1] = "{"]
             buf1    == outLoop(nums, 0, buf0, 1)
             buf2    == [buf1 EXCEPT ![res_len - 1] = "}", ![res_len] = NUL]
         IN  {Result("text", FALSE, <<>>, cstring(buf2), 0, 0, {})}

\* ------------------------------------------------------------- inputs
\* the canonical array of a finite set of uint32: ascending, no duplicates
RECURSIVE SortedSeq(_)
SortedSeq(S) ==
    IF S = {} THEN <<>>
    ELSE LET m == CHOOSE m \in S : \A y \in S : ~Lt32(y, m)
         IN  <<m>> \o SortedSeq(S \ {m})

Elems(nums) == {nums[k] : k \in 1..Len(nums)}

Ascending(nums) == \A k \in 1..(Len(nums) - 1) : Lt32(nums[k], nums[k + 1])

\* operands of the set operators
Canon == {SortedSeq(S) : S \in SUBSET {U32(k) : k \in 0..MaxElem}}

Targets == {U32(k) : k \in 0..(MaxElem + 1)}

Max32 == <<Half - 1, Half - 1>>

\* values rendered by intset_out
OutElems == {U32(0), U32(7), U32(10), U32(99), U32(999999999), U32(1000000000), Max32}

OutValues == {SortedSeq(S) : S \in {T \in SUBSET OutElems : Cardinality(T) <= MaxOutCount}}

\* texts parsed by intset_in: up to MaxTokens pieces, concatenated.
\* 4294967303 is 2^32 + 7.
Pieces ==
    {<<"{">>, <<"}">>, <<" ">>, <<",">>, <<"x">>, <<"0">>, <<"7">>,
     <<"7", ",">>,
     <<"4", "2", "9", "4", "9", "6", "7", "3", "0", "3">>}

RECURSIVE Flatten(_)
Flatten(ps) == IF ps = <<>> THEN <<>> ELSE Head(ps) \o Flatten(Tail(ps))

Texts == {Flatten(ps) : ps \in UNION {[1..k -> Pieces] : k \in 0..MaxTokens}}

\* -------------------------------------------------------- state machine
\* a, b: the intSet operands; x: the integer operand of intset_contains;
\* str: the text operand of intset_in; op, ret: the last operator called and
\* what it returned; tree: a construction tree under construction, before:
\* the tree handed to the last insertNode call.
VARIABLES a, b, x, str, op, ret, tree, before

vars == <<a, b, x, str, op, ret, tree, before>>

Init ==
    /\ a \in Canon
    /\ b \in Canon
    /\ x = Zero32
    /\ str = <<>>
    /\ op = "none"
    /\ ret = NoResult
    /\ tree = NULL
    /\ before = NULL

\* one call of an operator by the host, on the operands it was given
Call(name, outcomes) ==
    /\ op = "none"
    /\ \E r \in outcomes : ret' = r
    /\ op' = name

Do_union == Call("union", intset_union(a, b)) /\ UNCHANGED <<a, b, x, str, tree, before>>

Do_intersectn == Call("intersectn", intset_intersectn(a, b)) /\ UNCHANGED <<a, b, x, str, tree, before>>

Do_contain_all == Call("contain_all", intset_contain_all(a, b)) /\ UNCHANGED <<a, b, x, str, tree, before>>

Do_contain_only == Call("contain_only", intset_contain_only(a, b)) /\ UNCHANGED <<a, b, x, str, tree, before>>

Do_contains ==
    \E i \in Targets :
        /\ Call("contains", intset_contains(i, a))
        /\ x' = i
        /\ UNCHANGED <<a, b, str, tree, before>>

Do_cardinality == Call("cardinality", intset_cardinality(a)) /\ UNCHANGED <<a, b, x, str, tree, before>>

Do_disjunctn == Call("disjunctn", intset_disjunctn(a, b)) /\ UNCHANGED <<a, b, x, str, tree, before>>

Do_diff == Call("diff", intset_diff(a, b)) /\ UNCHANGED <<a, b, x, str, tree, before>>

Next ==
    \/ Do_union
    \/ Do_intersectn
    \/ Do_contain_all
    \/ Do_contain_only
    \/ Do_contains
    \/ Do_cardinality
    \/ Do_disjunctn
    \/ Do_diff

Spec == Init /\ [][Next]_vars

\* the text codec: a text to parse, or a value to render
InitCodec ==
    /\ \/ str \in Texts /\ a = <<>>
       \/ str = <<>> /\ a \in OutValues
    /\ b = <<>>
    /\ x = Zero32
    /\ op = "none"
    /\ ret = NoResult
    /\ tree = NULL
    /\ before = NULL

Do_in == Call("in", intset_in(str)) /\ UNCHANGED <<a, b, x, str, tree, before>>

Do_out == Call("out", intset_out(a)) /\ UNCHANGED <<a, b, x, str, tree, before>>

NextCodec == Do_in \/ Do_out

SpecCodec == InitCodec /\ [][NextCodec]_vars

\* --------------------------------------------------------------- claims
\* C1: contain_all(a, b) returns true exactly when every element of b is an
\* element of a, and false otherwise.
C1_ContainAllIsSuperset ==
    op = "contain_all" =>
        /\ ret.kind = "bool"
        /\ ret.bool = (Elems(b) \subseteq Elems(a))

\* C2: disjunctn(a, b) returns the canonical array of the elements that are in
\* exactly one of a and b (so the empty value only when a and b are equal).
C2_DisjunctnIsSymmetricDifference ==
    op = "disjunctn" =>
        /\ ret.kind = "value"
        /\ ret.nums = SortedSeq((Elems(a) \ Elems(b)) \cup (Elems(b) \ Elems(a)))

\* C3: in contains, contain_all, contain_only, intersectn, diff and disjunctn
\* every array position read lies inside the array being read, and the call
\* returns.
C3_ReadsInBounds ==
    op \in {"contains", "contain_all", "contain_only", "intersectn", "diff", "disjunctn"} =>
        ret.bad = {} /\ ret.kind # "fault"

\* C4: diff(a, b) returns the canonical array of the elements of a that are
\* not in b, also when b is empty.
C4_DiffIsDifference ==
    op = "diff" =>
        /\ ret.kind = "value"
        /\ ret.nums = SortedSeq(Elems(a) \ Elems(b))

\* C5: union(a, b) returns a strictly ascending, duplicate-free array holding
\* exactly the elements of a and of b; with an empty operand it returns the
\* other operand.
C5_UnionIsUnion ==
    op = "union" =>
        /\ ret.kind = "value"
        /\ Ascending(ret.nums)
        /\ Elems(ret.nums) = Elems(a) \cup Elems(b)
        /\ Len(a) = 0 => ret.nums = b
        /\ Len(b) = 0 => ret.nums = a

C5_Witness ==
    /\ op = "union"
    /\ Len(a) = 3
    /\ Len(b) = 2
    /\ Cardinality(Elems(a) \cap Elems(b)) = 1
    /\ Lt32(b[1], a[1])
    /\ Len(ret.nums) = 4

\* the grammar of section 4.1, read as a scanner: 1 before '{', 2 after '{',
\* 3 inside a digit run, 4 after a digit run, 5 after ',', 6 after '}', 0 dead
GrammarStep(q, c) ==
    CASE q = 1 -> (IF c = " " THEN 1 ELSE IF c = "{" THEN 2 ELSE 0)
      [] q = 2 -> (IF c = " " THEN 2 ELSE IF c = "}" THEN 6 ELSE IF isDigit(c) THEN 3 ELSE 0)
      [] q = 3 -> (IF isDigit(c) THEN 3 ELSE IF c = " " THEN 4 ELSE IF c = "," THEN 5
                   ELSE IF c = "}" THEN 6 ELSE 0)
      [] q = 4 -> (IF c = " " THEN 4 ELSE IF c = "," THEN 5 ELSE IF c = "}" THEN 6 ELSE 0)
      [] q = 5 -> (IF c = " " THEN 5 ELSE IF isDigit(c) THEN 3 ELSE 0)
      [] q = 6 -> (IF c = " " THEN 6 ELSE 0)
      [] OTHER -> 0

RECURSIVE GrammarRun(_, _)
GrammarRun(q, text) ==
    IF text = <<>> THEN q ELSE GrammarRun(GrammarStep(q, Head(text)), Tail(text))

InGrammar(text) == GrammarRun(1, text) = 6

\* the maximal digit runs of a text, as <<first, last>> positions
DigitRuns(text) ==
    {r \in (1..Len(text)) \X (1..Len(text)) :
        /\ r[1] <= r[2]
        /\ \A k \in r[1]..r[2] : isDigit(text[k])
        /\ r[1] = 1 \/ ~isDigit(text[r[1] - 1])
        /\ r[2] = Len(text) \/ ~isDigit(text[r[2] + 1])}

\* the value of the digits text[i..j] in base 10, modulo 2^32
RECURSIVE RunValue(_, _, _)
RunValue(text, i, j) ==
    IF j < i THEN Zero32
    ELSE MulAdd10(RunValue(text, i, j - 1), digitValue(text[j]))

\* C6: intset_in of a text of the grammar yields a strictly ascending,
\* duplicate-free array whose elements are exactly the values, modulo 2^32,
\* of the digit runs of the text (none for "{}").
C6_ParseYieldsDigitRuns ==
    (op = "in" /\ InGrammar(str)) =>
        /\ ret.kind = "value"
        /\ Ascending(ret.nums)
        /\ Elems(ret.nums) = {RunValue(str, r[1], r[2]) : r \in DigitRuns(str)}

C6_Witness ==
    /\ op = "in"
    /\ InGrammar(str)
    /\ Cardinality(DigitRuns(str)) = 2
    /\ \E r \in DigitRuns(str) : r[2] - r[1] = 9
    /\ ret.nums = <<U32(7)>>

\* C7: intset_in(intset_out(v)) is v, and intset_out(v) is '{', the elements
\* separated by single commas, '}', with no blank and no trailing comma.
C7_RoundTrip ==
    op = "out" =>
        /\ ret.kind = "text"
        /\ Len(ret.text) >= 2
        /\ Head(ret.text) = "{"
        /\ ret.text[Len(ret.text)] = "}"
        /\ \A k \in 2..(Len(ret.text) - 1) : isDigit(ret.text[k]) \/ ret.text[k] = ","
        /\ \A k \in 2..(Len(ret.text) - 1) :
              ret.text[k] = "," => isDigit(ret.text[k - 1]) /\ isDigit(ret.text[k + 1])
        /\ Cardinality({k \in 1..Len(ret.text) : ret.text[k] = ","}) =
              (IF Len(a) = 0 THEN 0 ELSE Len(a) - 1)
        /\ \A r \in intset_in(ret.text) : r.kind = "value" /\ r.nums = a

C7_Witness ==
    /\ op = "out"
    /\ a = <<Zero32, Max32>>
    /\ Len(ret.text) = 14

\* C8: intset_in ends in InvalidSyntax exactly when the text is not in the
\* grammar, and then it has created no tree node and produced no value.
C8_InvalidSyntaxBeforeTree ==
    op = "in" =>
        /\ (ret.kind = "InvalidSyntax") = ~InGrammar(str)
        /\ ret.kind \in {"InvalidSyntax", "value"}
        /\ ret.kind = "InvalidSyntax" => ret.nodes = 0 /\ ret.nums = <<>>

C8_Witness ==
    /\ op = "in"
    /\ ret.kind = "InvalidSyntax"
    /\ str = <<"{", "7", ",", "}">>

\* C9: union, intersectn and disjunctn give the same array for (a, b) and for
\* (b, a).
C9_Commutative ==
    /\ op = "union" => \A r \in intset_union(b, a) :
                          ret.kind = "value" /\ r.kind = "value" /\ r.nums = ret.nums
    /\ op = "intersectn" => \A r \in intset_intersectn(b, a) :
                          ret.kind = "value" /\ r.kind = "value" /\ r.nums = ret.nums
    /\ op = "disjunctn" => \A r \in intset_disjunctn(b, a) :
                          ret.kind = "value" /\ r.kind = "value" /\ r.nums = ret.nums

cardinality(v) == (CHOOSE r \in intset_cardinality(v) : TRUE).count

\* C10: cardinality(union(a, b)) + cardinality(intersectn(a, b)) equals
\* cardinality(a) + cardinality(b).
C10_CardinalityLaw ==
    op = "intersectn" =>
        /\ ret.kind = "value"
        /\ \A u \in intset_union(a, b) :
              cardinality(u.nums) + cardinality(ret.nums) = cardinality(a) + cardinality(b)

\* the construction tree on its own: tree = insertNode(n, tree), repeated,
\* as the loops of intset_in and intset_union do
TreeKeys == {U32(k) : k \in 0..MaxKey}

InitTree ==
    /\ a = <<>>
    /\ b = <<>>
    /\ x = Zero32
    /\ str = <<>>
    /\ op = "none"
    /\ ret = NoResult
    /\ tree = NULL
    /\ before = NULL

Do_insertNode ==
    \E n \in TreeKeys :
        /\ tree' = insertNode(n, tree)
        /\ before' = tree
        /\ x' = n
        /\ op' = "insertNode"
        /\ UNCHANGED <<a, b, str, ret>>

NextTree == Do_insertNode

SpecTree == InitTree /\ [][NextTree]_vars

RECURSIVE KeysOf(_)
KeysOf(t) == IF t = NULL THEN {} ELSE {data(t)} \cup KeysOf(left(t)) \cup KeysOf(right(t))

\* left < node < right at every node
RECURSIVE IsSearchTree(_)
IsSearchTree(t) ==
    t = NULL \/
      /\ \A k \in KeysOf(left(t)) : Lt32(k, data(t))
      /\ \A k \in KeysOf(right(t)) : Lt32(data(t), k)
      /\ IsSearchTree(left(t))
      /\ IsSearchTree(right(t))

\* the longest path from t down to a leaf, counted in nodes
RECURSIVE Depth(_)
Depth(t) ==
    IF t = NULL THEN 0
    ELSE 1 + (IF Depth(left(t)) >= Depth(right(t)) THEN Depth(left(t)) ELSE Depth(right(t)))

\* left height minus right height in {-1, 0, 1} at every node
RECURSIVE IsBalanced(_)
IsBalanced(t) ==
    t = NULL \/
      /\ Depth(left(t)) - Depth(right(t)) \in {-1, 0, 1}
      /\ IsBalanced(left(t))
      /\ IsBalanced(right(t))

\* C11: after any sequence of insertNode calls from the empty tree the tree
\* is a search tree, balanced at every node, and holds the keys it held plus
\* the inserted one; inserting a key already present leaves the tree as it was.
C11_TreeInvariant ==
    /\ IsSearchTree(tree)
    /\ IsBalanced(tree)
    /\ op = "insertNode" =>
          /\ KeysOf(tree) = KeysOf(before) \cup {x}
          /\ x \in KeysOf(before) => tree = before

\* the last insertion rotated at the root of a tree of three levels
C11_Witness ==
    /\ op = "insertNode"
    /\ x \notin KeysOf(before)
    /\ Depth(before) = 3
    /\ Depth(tree) = 3
    /\ data(tree) # data(before)

====
